---- MODULE Spec2Model ----
(***************************************************************************)
(* yabridgectl, src/tools/yabridgectl/src/utils.rs: the two setup checks   *)
(* verify_wine_setup (the cached Wine/yabridge-host compatibility check)   *)
(* and verify_path_setup (the login shell search path check).              *)
(*                                                                         *)
(* Strings are sequences of bytes.  An ASCII byte is written as the        *)
(* one-character string it encodes, "LF" and "CR" are the line feed and    *)
(* the carriage return, "xC3" is the lead byte of a two-byte UTF-8         *)
(* sequence, "xA9" a continuation byte and "xFF" a byte that occurs in no  *)
(* UTF-8 text.  A path is a sequence of tokens: the separator "/" and the  *)
(* names between separators.                                               *)
(***************************************************************************)
EXTENDS Integers, Sequences, FiniteSets, TLC

VARIABLES
    \* ---- Config, and the file config.write() persists it to
    last_known_config,      \* Config::last_known_config: Option<KnownConfig>
    store,                  \* the persisted configuration file's last_known_config
    \* ---- verify_wine_setup: position and locals
    pc,                     \* the statement verify_wine_setup is at
    wine_version_output,    \* stdout of `wine --version`, bytes
    wine_version,           \* the decoded version with its last char popped
    current_config,         \* Option<KnownConfig>, the candidate
    stderr,                 \* the helper's standard error, bytes
    lines,                  \* the items of the iterator stderr.lines()
    lineIdx,                \* position of the `for line in stderr.lines()` loop
    success,
    last_error,             \* Option<&str>
    result,                 \* what the call returned: "none", "Ok", "Err", "Panic"
    warning,                \* Option: the error line the warning prints
    exitCode,               \* the helper's exit status (output.status, never read)
    \* ---- verify_wine_setup: observation of one call and of the calls so far
    probeRuns,              \* times `wine --version` was spawned in this call
    helperRuns,             \* times the spawn of yabridge-host.exe was attempted in this call
    writeCalls,             \* times config.write() was called in this call
    entry_config,           \* last_known_config when the call started
    entry_store,            \* store when the call started
    ranFor,                 \* the candidates the helper has been executed for
    lastPassed,             \* the candidate of the latest verification that was persisted
    failedWrite,            \* the candidate whose config.write() failed in the previous run
    \* ---- verify_path_setup: position, inputs and locals
    ppc,                    \* the statement verify_path_setup is at
    env_SHELL,              \* Option: env::var("SHELL")
    env_HOME,               \* Option: env::var("HOME")
    env_PATH,               \* the ambient PATH of yabridgectl's own process
    data_home,              \* what the lookup of yabridge-host.exe in the data directory finds
    xdg_data_yabridge_exists,
    shell,                  \* the basename the match is on
    command,                \* Option: the std::process::Command that was built
    status,                 \* Option: what command.status() returned
    path_result,            \* what the call returned: "none", "Ok(true)", "Ok(false)", "Err"
    path_warning,           \* which eprintln! ran: "none", "unknown_shell", ...
    \* ---- verify_path_setup: observation
    outcome,                \* the branch taken: "none", "Verified", ...
    shellRead,              \* whether env::var("SHELL") was evaluated in this call
    spawnCount,             \* times the login shell was spawned in this call
    seen                    \* the (returned value, outcome) pairs of the calls so far

wineVars == <<last_known_config, store, pc, wine_version_output, wine_version,
              current_config, stderr, lines, lineIdx, success, last_error, result,
              warning, exitCode, probeRuns, helperRuns, writeCalls, entry_config,
              entry_store, ranFor, lastPassed, failedWrite>>

pathVars == <<ppc, env_SHELL, env_HOME, env_PATH, data_home,
              xdg_data_yabridge_exists, shell, command, status,
              path_result, path_warning, outcome, shellRead, spawnCount, seen>>

vars == <<wineVars, pathVars>>

-----------------------------------------------------------------------------
(* Option<T> *)

None == [tag |-> "None"]

Some(v) == [tag |-> "Some", val |-> v]

IsSome(o) == o.tag = "Some"

-----------------------------------------------------------------------------
(* Bytes and strings *)

\* A UTF-8 continuation byte (0b10xxxxxx).
IsContinuation(b) == b = "xA9"

\* The lead byte of a two-byte UTF-8 sequence (0b110xxxxx).
IsLead2(b) == b = "xC3"

\* A byte that is a whole character (0b0xxxxxxx).
IsAscii(b) == ~IsContinuation(b) /\ ~IsLead2(b) /\ b # "xFF"

\* String::from_utf8(bytes).is_ok(): every byte is an ASCII byte or one of a
\* lead byte followed by its continuation byte.
RECURSIVE Utf8From(_, _)
Utf8From(bytes, i) ==
    IF i > Len(bytes) THEN TRUE
    ELSE IF IsAscii(bytes[i]) THEN Utf8From(bytes, i + 1)
    ELSE IF IsLead2(bytes[i]) /\ i + 1 <= Len(bytes) /\ IsContinuation(bytes[i + 1])
         THEN Utf8From(bytes, i + 2)
    ELSE FALSE

IsUtf8(bytes) == Utf8From(bytes, 1)

\* str::is_char_boundary(i), i a byte offset counted from 0.
IsCharBoundary(s, i) ==
    \/ i = 0
    \/ i = Len(s)
    \/ i < Len(s) /\ ~IsContinuation(s[i + 1])

\* str::get(a..b): the bytes a..b (b excluded) if both ends are char boundaries.
Get(s, a, b) ==
    IF a <= b /\ b <= Len(s) /\ IsCharBoundary(s, a) /\ IsCharBoundary(s, b)
    THEN Some(SubSeq(s, a + 1, b))
    ELSE None

\* str::starts_with(prefix)
StartsWith(s, prefix) ==
    Len(s) >= Len(prefix) /\ SubSeq(s, 1, Len(prefix)) = prefix

\* String::pop(): the string without its last char (one or two bytes), None
\* for the empty string.
Pop(s) ==
    IF Len(s) = 0 THEN None
    ELSE IF IsContinuation(s[Len(s)]) THEN Some(SubSeq(s, 1, Len(s) - 2))
    ELSE Some(SubSeq(s, 1, Len(s) - 1))

\* One line of str::lines(): a line that ended in a line feed loses one
\* carriage return before it.
StripCr(line) ==
    IF Len(line) > 0 /\ line[Len(line)] = "CR"
    THEN SubSeq(line, 1, Len(line) - 1)
    ELSE line

\* str::lines(): split at every line feed; the text after the last line feed
\* is a line only if it is not empty.
RECURSIVE LinesFrom(_, _, _)
LinesFrom(s, i, cur) ==
    IF i > Len(s) THEN (IF cur = <<>> THEN <<>> ELSE <<cur>>)
    ELSE IF s[i] = "LF" THEN <<StripCr(cur)>> \o LinesFrom(s, i + 1, <<>>)
    ELSE LinesFrom(s, i + 1, Append(cur, s[i]))

Lines(s) == LinesFrom(s, 1, <<>>)

-----------------------------------------------------------------------------
(* Program constants *)

\* "Usage: yabridge-"
YABRIDGE_HOST_EXPECTED_OUTPUT_PREFIX ==
    <<"U", "s", "a", "g", "e", ":", " ", "y", "a", "b", "r", "i", "d", "g", "e", "-">>

\* "fixme", the marker of line 307
FIXME == <<"f", "i", "x", "m", "e">>

\* "<no_output>", the placeholder of line 329
NO_OUTPUT == <<"<", "n", "o", "_", "o", "u", "t", "p", "u", "t", ">">>

-----------------------------------------------------------------------------
(* What the environment can hand to verify_wine_setup *)

\* Standard outputs of `wine --version`: two versions with their line feed, a
\* version without one, no output at all, and bytes that are not UTF-8.
VersionOutputs ==
    { <<"w", "6", "LF">>, <<"w", "7", "LF">>, <<"w", "6">>, <<>>,
      <<"w", "xFF", "LF">> }

\* Values hash_file() returns for the contents yabridge-host.exe.so can have
\* (hasher.finish() as i64, so negative values occur).
Hashes == {-1, 5}

\* The helper's exit statuses.
ExitCodes == {0, 1}

\* Lines the helper and wineserver print on standard error.
UsageLine == YABRIDGE_HOST_EXPECTED_OUTPUT_PREFIX \o <<"h">>

ErrLine == <<"0", "0", "2", "b", ":", "e", "r", "r", ":", "m">>

FixmeLine == <<"0", "0", "2", "b", ":", "f", "i", "x", "m", "e", ":", "x">>

\* "Usage: yabridge", one byte short of the prefix
ShortUsageLine == SubSeq(YABRIDGE_HOST_EXPECTED_OUTPUT_PREFIX, 1, 15)

\* The prefix after a space
IndentedUsageLine == <<" ">> \o YABRIDGE_HOST_EXPECTED_OUTPUT_PREFIX

\* "fixme" one byte early, at 4..9
EarlyFixmeLine == <<"0", "2", "b", ":", "f", "i", "x", "m", "e", ":">>

\* "fixme" at bytes 5..10 after a two-byte char (the fifth char, not the sixth)
WideFixmeLine == <<"0", "xC3", "xA9", "2", ":", "f", "i", "x", "m", "e">>

\* Byte 5 is inside a two-byte char
SplitCharLine == <<"0", "0", "2", "4", "xC3", "xA9", "i", "x", "m", "e", ":">>

\* The lines the classifier is checked on.
ClassifyLines ==
    { UsageLine, ErrLine, FixmeLine, ShortUsageLine, IndentedUsageLine,
      EarlyFixmeLine, WideFixmeLine, SplitCharLine, <<>> }

\* Most lines of a standard error the classifier is checked on.
MaxLines == 3

\* The line terminators: "\n", "\r\n", and "\n" with the last line unterminated.
Terminators == {"lf", "crlf", "open"}

\* The text of the lines ls with terminator t.
RECURSIVE Text(_, _)
Text(ls, t) ==
    IF ls = <<>> THEN <<>>
    ELSE Head(ls)
         \o (IF t = "crlf" THEN <<"CR", "LF">>
             ELSE IF t = "open" /\ Len(ls) = 1 THEN <<>>
             ELSE <<"LF">>)
         \o Text(Tail(ls), t)

\* A standard error that is not UTF-8.
InvalidStderr == <<"xFF", "LF">>

\* The standard errors the classifier is checked on.
Streams ==
    { Text(ls, t) : ls \in UNION {[1..n -> ClassifyLines] : n \in 0..MaxLines},
                    t \in Terminators }
    \cup {InvalidStderr}

\* Standard errors of the helper that verify_wine_setup as a whole is run on.
SampleStderr ==
    { UsageLine \o <<"LF">>,
      FixmeLine \o <<"LF">> \o UsageLine \o <<"LF">>,
      ErrLine \o <<"LF">> \o FixmeLine \o <<"LF">>,
      FixmeLine \o <<"LF">>,
      <<>>,
      InvalidStderr }

-----------------------------------------------------------------------------
(* verify_wine_setup *)

KnownConfig(version, hash) ==
    [wine_version |-> version, yabridge_host_hash |-> hash]

\* CacheHit comparing the Wine version alone.
CacheHitVersionOnly(known, current) ==
    IsSome(known) /\ known.val.wine_version = current.wine_version

\* CacheHit that never hits.
CacheHitNever(known, current) == FALSE

\* Line 280: config.last_known_config.as_ref() == Some(&current_config)
CacheHit(known, current) == known = Some(current)

\* IsUsageLine matching "Usage: yabridge", the prefix without its hyphen.
IsUsageLineShort(line) ==
    StartsWith(line, SubSeq(YABRIDGE_HOST_EXPECTED_OUTPUT_PREFIX, 1, 15))

\* IsUsageLine that also asks the helper to have exited with status 0.
IsUsageLineIfExitZero(line) ==
    exitCode = 0 /\ StartsWith(line, YABRIDGE_HOST_EXPECTED_OUTPUT_PREFIX)

\* Line 300: line.starts_with(YABRIDGE_HOST_EXPECTED_OUTPUT_PREFIX)
IsUsageLine(line) == StartsWith(line, YABRIDGE_HOST_EXPECTED_OUTPUT_PREFIX)

\* IsFixmeLine looking one byte early, at 4..9.
IsFixmeLineEarly(line) == Get(line, 4, 9) = Some(FIXME)

\* Line 307, negated: line.get(5..10) == Some("fixme")
IsFixmeLine(line) == Get(line, 5, 10) = Some(FIXME)

\* NewKnownConfig updating the version of an existing KnownConfig in place.
NewKnownConfigVersionOnly(known, current) ==
    IF IsSome(known)
    THEN Some([known.val EXCEPT !.wine_version = current.wine_version])
    ELSE Some(current)

\* NewKnownConfig that only fills in a last_known_config that is None.
NewKnownConfigIfAbsent(known, current) ==
    IF IsSome(known) THEN known ELSE Some(current)

\* Line 313: the value assigned to config.last_known_config
NewKnownConfig(known, current) == Some(current)

\* Line 329: last_error.unwrap_or("<no_output>")
ReportedError(err) == IF IsSome(err) THEN err.val ELSE NO_OUTPUT

\* config.write(): the file holds what the Config holds, or the write fails
\* and the file is as it was.
Persist(config, ok) == IF ok THEN config ELSE store

callObs == <<probeRuns, helperRuns, writeCalls, entry_config, entry_store>>

locals == <<wine_version_output, wine_version, current_config, stderr, lines, lineIdx,
            success, last_error, warning, exitCode>>

\* `return`/`?`: the call is over with value r.
Return(r) == pc' = "done" /\ result' = r

\* yabridgectl calls verify_wine_setup(&mut config).
Call ==
    /\ pc \in {"idle", "done"}
    /\ pc' = "probe"
    /\ result' = "none"
    /\ wine_version_output' = None
    /\ wine_version' = None
    /\ current_config' = None
    /\ stderr' = <<>>
    /\ lines' = <<>>
    /\ lineIdx' = 0
    /\ success' = FALSE
    /\ last_error' = None
    /\ warning' = None
    /\ exitCode' = 0
    /\ probeRuns' = 0
    /\ helperRuns' = 0
    /\ writeCalls' = 0
    /\ entry_config' = last_known_config
    /\ entry_store' = store
    /\ UNCHANGED <<last_known_config, store, ranFor, lastPassed, failedWrite, pathVars>>

\* A new run of yabridgectl: the Config is read from the configuration file.
Restart ==
    /\ pc \in {"done", "dead"}
    /\ pc' = "idle"
    /\ last_known_config' = store
    /\ failedWrite' = IF pc = "done" /\ result = "Err" /\ writeCalls = 1
                      THEN current_config
                      ELSE None
    /\ UNCHANGED <<store, result, locals, callObs, ranFor, lastPassed, pathVars>>

\* The process is killed while verify_wine_setup runs.
Kill ==
    /\ pc \notin {"idle", "done", "dead"}
    /\ pc' = "dead"
    /\ result' = "Killed"
    /\ UNCHANGED <<last_known_config, store, locals, callObs, ranFor, lastPassed, failedWrite,
                   pathVars>>

\* Lines 251-261: Command::new(&wine_binary).arg("--version").output()
ProbeVersion ==
    /\ pc = "probe"
    /\ probeRuns' = probeRuns + 1
    /\ \/ /\ Return("Err")
          /\ UNCHANGED wine_version_output
       \/ /\ \E out \in VersionOutputs : wine_version_output' = Some(out)
          /\ pc' = "decode_version"
          /\ UNCHANGED result
    /\ UNCHANGED <<last_known_config, store, wine_version, current_config, stderr,
                   lines, lineIdx, success, last_error, warning, exitCode, helperRuns,
                   writeCalls, entry_config, entry_store, ranFor, lastPassed, failedWrite,
                   pathVars>>

\* Lines 263-264: String::from_utf8(wine_version_output)?, then pop().unwrap()
DecodeVersion ==
    /\ pc = "decode_version"
    /\ IF ~IsUtf8(wine_version_output.val)
       THEN Return("Err") /\ UNCHANGED wine_version
       ELSE IF ~IsSome(Pop(wine_version_output.val))
       THEN pc' = "dead" /\ result' = "Panic" /\ UNCHANGED wine_version
       ELSE /\ wine_version' = Pop(wine_version_output.val)
            /\ pc' = "files"
            /\ UNCHANGED result
    /\ UNCHANGED <<last_known_config, store, wine_version_output, current_config,
                   stderr, lines, lineIdx, success, last_error, warning, exitCode,
                   callObs, ranFor, lastPassed, failedWrite, pathVars>>

\* Lines 266-268: config.files().context(..)?
ResolveFiles ==
    /\ pc = "files"
    /\ \/ Return("Err")
       \/ pc' = "hash" /\ UNCHANGED result
    /\ UNCHANGED <<last_known_config, store, locals, callObs, ranFor, lastPassed, failedWrite,
                   pathVars>>

\* Lines 272-279: hash_file(&files.yabridge_host_exe_so)?, then the candidate
HashFile ==
    /\ pc = "hash"
    /\ \/ /\ Return("Err")
          /\ UNCHANGED current_config
       \/ /\ \E h \in Hashes :
                current_config' = Some(KnownConfig(wine_version.val, h))
          /\ pc' = "compare"
          /\ UNCHANGED result
    /\ UNCHANGED <<last_known_config, store, wine_version_output, wine_version,
                   stderr, lines, lineIdx, success, last_error, warning, exitCode,
                   callObs, ranFor, lastPassed, failedWrite, pathVars>>

\* Lines 280-282: the cache hit returns Ok(())
CompareCache ==
    /\ pc = "compare"
    /\ IF CacheHit(last_known_config, current_config.val)
       THEN Return("Ok")
       ELSE pc' = "run_helper" /\ UNCHANGED result
    /\ UNCHANGED <<last_known_config, store, locals, callObs, ranFor, lastPassed, failedWrite,
                   pathVars>>

\* RunHelper trying the spawn a second time when the first attempt fails.
RunHelperRetry ==
    /\ pc = "run_helper"
    /\ helperRuns' = helperRuns + 1
    /\ \/ /\ helperRuns = 0
          /\ UNCHANGED <<pc, result, stderr, exitCode, ranFor>>
       \/ /\ helperRuns > 0
          /\ Return("Err")
          /\ UNCHANGED <<stderr, exitCode, ranFor>>
       \/ /\ \E out \in SampleStderr : stderr' = out
          /\ \E code \in ExitCodes : exitCode' = code
          /\ ranFor' = ranFor \cup {current_config.val}
          /\ pc' = "decode_stderr"
          /\ UNCHANGED result
    /\ UNCHANGED <<last_known_config, store, wine_version_output, wine_version,
                   current_config, lines, lineIdx, success, last_error, warning,
                   probeRuns, writeCalls, entry_config, entry_store, lastPassed, failedWrite,
                   pathVars>>

\* Lines 284-286: Command::new(&files.yabridge_host_exe).output()
RunHelper ==
    /\ pc = "run_helper"
    /\ helperRuns' = helperRuns + 1
    /\ \/ /\ Return("Err")
          /\ UNCHANGED <<stderr, exitCode, ranFor>>
       \/ /\ \E out \in SampleStderr : stderr' = out
          /\ \E code \in ExitCodes : exitCode' = code
          /\ ranFor' = ranFor \cup {current_config.val}
          /\ pc' = "decode_stderr"
          /\ UNCHANGED result
    /\ UNCHANGED <<last_known_config, store, wine_version_output, wine_version,
                   current_config, lines, lineIdx, success, last_error, warning,
                   probeRuns, writeCalls, entry_config, entry_store, lastPassed, failedWrite,
                   pathVars>>

\* DecodeStderr decoding lossily: bytes that are not UTF-8 are scanned too.
DecodeStderrLossy ==
    /\ pc = "decode_stderr"
    /\ pc' = "scan"
    /\ lines' = Lines(stderr)
    /\ lineIdx' = 1
    /\ success' = FALSE
    /\ last_error' = None
    /\ UNCHANGED <<last_known_config, store, wine_version_output, wine_version,
                   current_config, stderr, result, warning, exitCode, callObs, ranFor,
                   lastPassed, failedWrite, pathVars>>

\* Lines 287, 297-299: String::from_utf8(output.stderr)?, then the loop starts
DecodeStderr ==
    /\ pc = "decode_stderr"
    /\ IF IsUtf8(stderr)
       THEN /\ pc' = "scan"
            /\ lines' = Lines(stderr)
            /\ lineIdx' = 1
            /\ success' = FALSE
            /\ last_error' = None
            /\ UNCHANGED result
       ELSE /\ Return("Err")
            /\ UNCHANGED <<lines, lineIdx, success, last_error>>
    /\ UNCHANGED <<last_known_config, store, wine_version_output, wine_version,
                   current_config, stderr, warning, exitCode, callObs, ranFor,
                   lastPassed, failedWrite, pathVars>>

\* Lines 299-310: one iteration of `for line in stderr.lines()`
ScanLine ==
    /\ pc = "scan"
    /\ lineIdx <= Len(lines)
    /\ LET line == lines[lineIdx] IN
       IF IsUsageLine(line)
       THEN /\ success' = TRUE
            /\ pc' = "classified"
            /\ UNCHANGED <<lineIdx, last_error>>
       ELSE /\ last_error' = IF ~IsFixmeLine(line) THEN Some(line) ELSE last_error
            /\ lineIdx' = lineIdx + 1
            /\ UNCHANGED <<pc, success>>
    /\ UNCHANGED <<last_known_config, store, wine_version_output, wine_version,
                   current_config, stderr, lines, result, warning, exitCode, callObs,
                   ranFor, lastPassed, failedWrite, pathVars>>

\* Line 310: the iterator is exhausted
EndScan ==
    /\ pc = "scan"
    /\ lineIdx > Len(lines)
    /\ pc' = "classified"
    /\ UNCHANGED <<last_known_config, store, result, locals, callObs, ranFor,
                   lastPassed, failedWrite, pathVars>>

\* UpdateConfig without the `if success`.
UpdateConfigAlways ==
    /\ pc = "classified"
    /\ last_known_config' = NewKnownConfig(last_known_config, current_config.val)
    /\ pc' = "write"
    /\ UNCHANGED <<store, result, locals, callObs, ranFor, lastPassed, failedWrite, pathVars>>

\* Lines 312-313: config.last_known_config = Some(current_config)
UpdateConfig ==
    /\ pc = "classified"
    /\ success
    /\ last_known_config' = NewKnownConfig(last_known_config, current_config.val)
    /\ pc' = "write"
    /\ UNCHANGED <<store, result, locals, callObs, ranFor, lastPassed, failedWrite, pathVars>>

\* WriteConfig dropping the error of config.write(): Ok(()) either way.
WriteConfigIgnoreErr ==
    /\ pc = "write"
    /\ writeCalls' = writeCalls + 1
    /\ \E ok \in BOOLEAN :
          /\ store' = Persist(last_known_config, ok)
          /\ lastPassed' = IF ok THEN current_config ELSE lastPassed
          /\ Return("Ok")
    /\ UNCHANGED <<last_known_config, locals, probeRuns, helperRuns, entry_config,
                   entry_store, ranFor, failedWrite, pathVars>>

\* Lines 314, 338: config.write()?, then Ok(())
WriteConfig ==
    /\ pc = "write"
    /\ writeCalls' = writeCalls + 1
    /\ \E ok \in BOOLEAN :
          /\ store' = Persist(last_known_config, ok)
          /\ lastPassed' = IF ok THEN current_config ELSE lastPassed
          /\ Return(IF ok THEN "Ok" ELSE "Err")
    /\ UNCHANGED <<last_known_config, locals, probeRuns, helperRuns, entry_config,
                   entry_store, ranFor, failedWrite, pathVars>>

\* Lines 315-338: the warning, then Ok(())
WarnFailure ==
    /\ pc = "classified"
    /\ ~success
    /\ warning' = Some(ReportedError(last_error))
    /\ Return("Ok")
    /\ UNCHANGED <<last_known_config, store, wine_version_output, wine_version,
                   current_config, stderr, lines, lineIdx, success, last_error, exitCode,
                   callObs, ranFor, lastPassed, failedWrite, pathVars>>

WineInit ==
    /\ last_known_config = None
    /\ store = None
    /\ pc = "idle"
    /\ wine_version_output = None
    /\ wine_version = None
    /\ current_config = None
    /\ stderr = <<>>
    /\ lines = <<>>
    /\ lineIdx = 0
    /\ success = FALSE
    /\ last_error = None
    /\ result = "none"
    /\ warning = None
    /\ exitCode = 0
    /\ probeRuns = 0
    /\ helperRuns = 0
    /\ writeCalls = 0
    /\ entry_config = None
    /\ entry_store = None
    /\ ranFor = {}
    /\ lastPassed = None
    /\ failedWrite = None

PathIdle ==
    /\ ppc = "idle"
    /\ env_SHELL = None
    /\ env_HOME = None
    /\ env_PATH = <<>>
    /\ data_home = "absent"
    /\ xdg_data_yabridge_exists = FALSE
    /\ shell = <<>>
    /\ command = None
    /\ status = None
    /\ path_result = "none"
    /\ path_warning = "none"
    /\ outcome = "none"
    /\ shellRead = FALSE
    /\ spawnCount = 0
    /\ seen = {}

Init == WineInit /\ PathIdle

Next ==
    \/ Call
    \/ Restart
    \/ Kill
    \/ ProbeVersion
    \/ DecodeVersion
    \/ ResolveFiles
    \/ HashFile
    \/ CompareCache
    \/ RunHelper
    \/ DecodeStderr
    \/ ScanLine
    \/ EndScan
    \/ UpdateConfig
    \/ WriteConfig
    \/ WarnFailure

\* Any sequence of runs of yabridgectl and of calls of verify_wine_setup.
Spec == Init /\ [][Next]_vars

-----------------------------------------------------------------------------
(* Properties of verify_wine_setup *)

\* The candidate differs from the known configuration in a field, or there
\* is no known configuration.
Differs(known, current) ==
    \/ ~IsSome(known)
    \/ known.val.wine_version # current.wine_version
    \/ known.val.yabridge_host_hash # current.yabridge_host_hash

\* The statements after the comparison of line 280.
PastCompare == {"decode_stderr", "scan", "classified", "write", "done"}

\* C1: once the version probe and the fingerprint have succeeded, the helper
\* is run if and only if the candidate differs from the last_known_config the
\* call found in a field, or there was none; when both fields match the helper
\* is not run and the call returns Ok.
C1_HelperRunIffCacheMiss ==
    IsSome(current_config) =>
        /\ helperRuns > 0 => Differs(entry_config, current_config.val)
        /\ pc \in PastCompare =>
              (helperRuns = 1 <=> Differs(entry_config, current_config.val))
        /\ (pc \in PastCompare /\ ~Differs(entry_config, current_config.val)) =>
              (pc = "done" /\ result = "Ok" /\ helperRuns = 0)

\* The helper ran because the fingerprint alone differs from the known one.
C1_Witness ==
    /\ pc \in PastCompare
    /\ helperRuns = 1
    /\ IsSome(entry_config)
    /\ entry_config.val.wine_version = current_config.val.wine_version
    /\ entry_config.val.yabridge_host_hash # current_config.val.yabridge_host_hash

\* C2: on a success classification last_known_config holds both fields of
\* this call's candidate before config.write() is called, and config.write()
\* is called exactly once, after the assignment.
C2_WholesaleThenPersistOnce ==
    /\ writeCalls <= 1
    /\ pc = "write" =>
          /\ writeCalls = 0
          /\ last_known_config.val.wine_version = current_config.val.wine_version
          /\ last_known_config.val.yabridge_host_hash
                = current_config.val.yabridge_host_hash
    /\ (pc = "done" /\ success) =>
          /\ writeCalls = 1
          /\ last_known_config.val.wine_version = current_config.val.wine_version
          /\ last_known_config.val.yabridge_host_hash
                = current_config.val.yabridge_host_hash
          /\ result = "Ok" => store = last_known_config
    /\ (pc # "idle" /\ writeCalls = 1) => success

\* A known configuration was replaced and persisted.
C2_Witness ==
    /\ pc = "done"
    /\ success
    /\ result = "Ok"
    /\ writeCalls = 1
    /\ IsSome(entry_config)
    /\ entry_config # current_config
    /\ store = current_config

\* C3: while the call has not classified the helper's output as a success
\* (cache hit, failure classification, error, kill), last_known_config and
\* the persisted store are what they were when the call started, and
\* config.write() has not been called.
C3_NoSuccessNoChange ==
    (pc # "idle" /\ ~success) =>
        /\ last_known_config = entry_config
        /\ store = entry_store
        /\ writeCalls = 0

\* A failure classification with a known configuration in place.
C3_Witness ==
    /\ pc = "done"
    /\ IsSome(warning)
    /\ helperRuns = 1
    /\ IsSome(entry_config)
    /\ last_known_config = entry_config
    /\ store = entry_store

-----------------------------------------------------------------------------
(* The classification of the helper's standard error, on every stream of     *)
(* Streams: verify_wine_setup from the point where the helper has returned.  *)

ClassifyInit ==
    /\ last_known_config = None
    /\ store = None
    /\ pc = "decode_stderr"
    /\ wine_version_output = Some(<<"w", "6", "LF">>)
    /\ wine_version = Some(<<"w", "6">>)
    /\ current_config = Some(KnownConfig(<<"w", "6">>, 5))
    /\ stderr \in Streams
    /\ lines = <<>>
    /\ lineIdx = 0
    /\ success = FALSE
    /\ last_error = None
    /\ result = "none"
    /\ warning = None
    /\ exitCode = 0
    /\ probeRuns = 1
    /\ helperRuns = 1
    /\ writeCalls = 0
    /\ entry_config = None
    /\ entry_store = None
    /\ ranFor = {KnownConfig(<<"w", "6">>, 5)}
    /\ lastPassed = None
    /\ failedWrite = None
    /\ PathIdle

ClassifyNext ==
    \/ DecodeStderr
    \/ ScanLine
    \/ EndScan
    \/ UpdateConfig
    \/ WriteConfig
    \/ WarnFailure

ClassifySpec == ClassifyInit /\ [][ClassifyNext]_vars

\* The line begins with the sixteen bytes of "Usage: yabridge-".
HasUsagePrefix(line) ==
    /\ Len(line) >= 16
    /\ \A k \in 1..16 : line[k] = YABRIDGE_HOST_EXPECTED_OUTPUT_PREFIX[k]

\* The line has "fixme" at bytes 5..10.
CarriesMarker(line) ==
    /\ Len(line) >= 10
    /\ \A k \in 1..5 : line[5 + k] = FIXME[k]

UsageLinesOf(ls) == {i \in 1..Len(ls) : HasUsagePrefix(ls[i])}

CandidatesOf(ls) == {i \in 1..Len(ls) : ~CarriesMarker(ls[i])}

Last(S) == CHOOSE i \in S : \A j \in S : j <= i

First(S) == CHOOSE i \in S : \A j \in S : i <= j

\* The error line the claim names for the lines ls, if there is one.
LastCandidate(ls) ==
    IF CandidatesOf(ls) = {} THEN None ELSE Some(ls[Last(CandidatesOf(ls))])

\* The loop is over: the classification is made.
Classified ==
    \/ pc \in {"classified", "write"}
    \/ pc = "done" /\ (success \/ IsSome(warning))

\* C6: the classifier reports success if and only if some line of the
\* standard error starts with "Usage: yabridge-", whatever precedes and
\* follows it, and the scan stops at the first such line.
C6_SuccessIffUsageLine ==
    Classified =>
        LET usage == UsageLinesOf(Lines(stderr)) IN
        /\ success <=> usage # {}
        /\ success => lineIdx = First(usage)

\* Success on a usage line that follows an error line and a fixme line.
C6_Witness ==
    /\ Classified
    /\ success
    /\ stderr = Text(<<ErrLine, FixmeLine, UsageLine>>, "crlf")
    /\ last_error = Some(ErrLine)

\* C7: on a failure the error reported is the last line without "fixme" at
\* bytes 5..10, and "<no_output>" if there is no such line.
C7_LastNonMarkerLine ==
    /\ (pc = "classified" /\ ~success) =>
          last_error = LastCandidate(Lines(stderr))
    /\ (pc = "done" /\ IsSome(warning)) =>
          LET last == LastCandidate(Lines(stderr)) IN
          warning = IF IsSome(last) THEN last ELSE Some(NO_OUTPUT)

\* A failure whose error line is followed by a fixme line.
C7_Witness ==
    /\ pc = "done"
    /\ stderr = Text(<<ErrLine, SplitCharLine, FixmeLine>>, "lf")
    /\ warning = Some(SplitCharLine)

-----------------------------------------------------------------------------
(* What the environment can hand to verify_path_setup *)

\* "yabridge-host.exe"
YABRIDGE_HOST_EXE_NAME == "yabridge-host.exe"

\* The shells the match of lines 157-192 names.
ShellNames ==
    {"ash", "bash", "csh", "ksh", "dash", "fish", "ion", "sh", "tcsh", "zsh",
     "elvish", "oil", "pwsh", "nu"}

\* Values of SHELL: each shell of the match under /bin, and paths that are
\* a bare name, end in a separator or in ".", name another shell, or have
\* no file name.
ShellPaths ==
    { <<"/", "bin", "/", n>> : n \in ShellNames }
    \cup { <<"bash">>,
           <<"/", "bin", "/", "zsh", "/">>,
           <<"nu", "/", ".">>,
           <<"/", "usr", "/", "bin", "/", "xonsh">>,
           <<"/", "bin", "/", "bash5">>,
           <<"/", "bash", "/", "login">>,
           <<>>,
           <<"/">>,
           <<".">>,
           <<"/", "bin", "/", "..">> }

\* Values of HOME, None when it is unset.
HomeValues == {None, Some(<<"/", "home", "/", "u">>)}

\* Values of the PATH of yabridgectl's own process.
PathValues == {<<>>, <<"/", "opt", "/", "yabridge">>}

\* The data directory lookup: yabridge_directories() fails, yabridge-host.exe
\* is an executable file there, or it is not.
DataHomeValues == {"error", "executable", "absent"}

\* Largest exit code of the login shell.
MaxExit == 2

\* What command.status() returns: the spawn fails, the shell exits with a
\* code, or a signal ends it.
Statuses ==
    { [kind |-> "error", code |-> -1], [kind |-> "signal", code |-> -1] }
    \cup { [kind |-> "exit", code |-> c] : c \in 0..MaxExit }

-----------------------------------------------------------------------------
(* verify_path_setup *)

\* XdgExists with the test negated.
XdgExistsNegated(found) == found # "executable"

\* Lines 129-135: .map(|dirs| ...is_executable()).unwrap_or(false)
XdgExists(found) == found = "executable"

\* Path::file_name(): the last component if it is a normal one.  Separators
\* and "." after the first token are no components.
RECURSIVE FileNameFrom(_, _)
FileNameFrom(path, i) ==
    IF i = 0 THEN None
    ELSE IF path[i] = "/" THEN FileNameFrom(path, i - 1)
    ELSE IF path[i] = "." THEN (IF i = 1 THEN None ELSE FileNameFrom(path, i - 1))
    ELSE IF path[i] = ".." THEN None
    ELSE Some(path[i])

FileName(path) == FileNameFrom(path, Len(path))

\* Lines 145-148: the file name, or the whole of SHELL if it has none
ShellOf(shell_path) ==
    IF IsSome(FileName(shell_path)) THEN <<FileName(shell_path).val>> ELSE shell_path

Recipe(login, query) == [known |-> TRUE, login |-> login, query |-> query]

Unknown == [known |-> FALSE, login |-> FALSE, query |-> "none"]

\* ShellRecipe with a default arm that queries `command -v` as a login shell.
ShellRecipeDefaultPosix(sh) == Recipe(TRUE, "command -v")

\* ShellRecipe with "oil" in the first arm, among the shells that take -l.
ShellRecipeOilLogin(sh) ==
    IF Len(sh) # 1 THEN Unknown
    ELSE IF sh[1] \in {"ash", "bash", "csh", "ksh", "dash", "fish", "ion", "sh",
                       "tcsh", "zsh", "oil"}
         THEN Recipe(TRUE, "command -v")
    ELSE IF sh[1] = "elvish" THEN Recipe(FALSE, "command -v")
    ELSE IF sh[1] = "pwsh" THEN Recipe(TRUE, "which")
    ELSE IF sh[1] = "nu" THEN Recipe(FALSE, "which")
    ELSE Unknown

\* Lines 157-192: the match on the shell's name
ShellRecipe(sh) ==
    IF Len(sh) # 1 THEN Unknown
    ELSE IF sh[1] \in {"ash", "bash", "csh", "ksh", "dash", "fish", "ion", "sh",
                       "tcsh", "zsh"}
         THEN Recipe(TRUE, "command -v")
    ELSE IF sh[1] \in {"elvish", "oil"} THEN Recipe(FALSE, "command -v")
    ELSE IF sh[1] = "pwsh" THEN Recipe(TRUE, "which")
    ELSE IF sh[1] = "nu" THEN Recipe(FALSE, "which")
    ELSE Unknown

\* Lines 162-177: the arguments of a recipe
RecipeArgs(r) ==
    (IF r.login THEN <<"-l">> ELSE <<>>)
    \o <<"-c", <<r.query, YABRIDGE_HOST_EXE_NAME>>>>

\* LoginCommand without env_clear(): the shell inherits PATH from yabridgectl.
LoginCommandInheritPath(shell_path, r, home) ==
    [ program |-> shell_path,
      arg0    |-> <<"-">> \o shell_path,
      args    |-> RecipeArgs(r),
      env     |-> [HOME |-> IF IsSome(home) THEN home.val ELSE <<>>,
                   PATH |-> env_PATH],
      stdout  |-> "null",
      stderr  |-> "null" ]

\* Lines 154-155, 196-200: the Command for the shell at shell_path
LoginCommand(shell_path, r, home) ==
    [ program |-> shell_path,
      arg0    |-> <<"-">> \o shell_path,
      args    |-> RecipeArgs(r),
      env     |-> [HOME |-> IF IsSome(home) THEN home.val ELSE <<>>],
      stdout  |-> "null",
      stderr  |-> "null" ]

\* ExitStatus::success()
StatusSuccess(st) == st.kind = "exit" /\ st.code = 0

\* StatusValue returning false when the shell could not be spawned.
StatusValueErrFalse(st) ==
    IF st.kind # "error" /\ StatusSuccess(st) THEN "Ok(true)" ELSE "Ok(false)"

\* StatusValue passing the spawn error on with `?`.
StatusValueErrErr(st) ==
    IF st.kind = "error" THEN "Err"
    ELSE IF StatusSuccess(st) THEN "Ok(true)"
    ELSE "Ok(false)"

\* Lines 200-234: the value of each arm of the match on command.status()
StatusValue(st) ==
    IF st.kind = "error" THEN "Ok(true)"
    ELSE IF StatusSuccess(st) THEN "Ok(true)"
    ELSE "Ok(false)"

\* `return`/`?`: the call is over with value r on the branch o, after warning w.
PathReturn(r, o, w) ==
    /\ ppc' = "done"
    /\ path_result' = r
    /\ outcome' = o
    /\ path_warning' = w
    /\ seen' = seen \cup {[value |-> r, outcome |-> o]}

\* yabridgectl calls verify_path_setup(&config) in some environment.
PathCall ==
    /\ ppc \in {"idle", "done"}
    /\ ppc' = "check_data_home"
    /\ env_SHELL' \in {None} \cup {Some(p) : p \in ShellPaths}
    /\ env_HOME' \in HomeValues
    /\ env_PATH' \in PathValues
    /\ data_home' \in DataHomeValues
    /\ xdg_data_yabridge_exists' = FALSE
    /\ shell' = <<>>
    /\ command' = None
    /\ status' = None
    /\ path_result' = "none"
    /\ path_warning' = "none"
    /\ outcome' = "none"
    /\ shellRead' = FALSE
    /\ spawnCount' = 0
    /\ UNCHANGED <<seen, wineVars>>

\* Lines 129-138: the data directory is checked first
CheckDataHome ==
    /\ ppc = "check_data_home"
    /\ xdg_data_yabridge_exists' = XdgExists(data_home)
    /\ IF XdgExists(data_home)
       THEN PathReturn("Ok(true)", "Verified", "none")
       ELSE /\ ppc' = "read_shell"
            /\ UNCHANGED <<path_result, outcome, path_warning, seen>>
    /\ UNCHANGED <<env_SHELL, env_HOME, env_PATH, data_home, shell, command, status,
                   shellRead, spawnCount, wineVars>>

\* Lines 142-155, 237-241: env::var("SHELL"), the shell's name, Command::new
ReadShell ==
    /\ ppc = "read_shell"
    /\ shellRead' = TRUE
    /\ IF IsSome(env_SHELL)
       THEN /\ shell' = ShellOf(env_SHELL.val)
            /\ ppc' = "match_shell"
            /\ UNCHANGED <<path_result, outcome, path_warning, seen>>
       ELSE /\ PathReturn("Ok(true)", "SkippedInconclusive", "no_shell")
            /\ UNCHANGED shell
    /\ UNCHANGED <<env_SHELL, env_HOME, env_PATH, data_home,
                   xdg_data_yabridge_exists, command, status, spawnCount,
                   wineVars>>

\* Lines 157-198: the recipe of the shell, or the warning and Ok(true)
MatchShell ==
    /\ ppc = "match_shell"
    /\ IF ShellRecipe(shell).known
       THEN /\ command' = Some(LoginCommand(env_SHELL.val, ShellRecipe(shell), env_HOME))
            /\ ppc' = "spawn"
            /\ UNCHANGED <<path_result, outcome, path_warning, seen>>
       ELSE /\ PathReturn("Ok(true)", "SkippedInconclusive", "unknown_shell")
            /\ UNCHANGED command
    /\ UNCHANGED <<env_SHELL, env_HOME, env_PATH, data_home,
                   xdg_data_yabridge_exists, shell, status, shellRead, spawnCount,
                   wineVars>>

\* Line 200: command.stdout(null).stderr(null).status()
SpawnShell ==
    /\ ppc = "spawn"
    /\ spawnCount' = spawnCount + 1
    /\ \E st \in Statuses : status' = Some(st)
    /\ ppc' = "match_status"
    /\ UNCHANGED <<env_SHELL, env_HOME, env_PATH, data_home,
                   xdg_data_yabridge_exists, shell, command, path_result,
                   path_warning, outcome, shellRead, seen, wineVars>>

\* Lines 201-235: the match on what command.status() returned.  The warning of
\* the non-zero arm formats config.files()?, which returns the error of files().
MatchStatus ==
    /\ ppc = "match_status"
    /\ \/ /\ status.val.kind = "error"
          /\ PathReturn(StatusValue(status.val), "SkippedInconclusive", "spawn_failed")
       \/ /\ status.val.kind # "error"
          /\ StatusSuccess(status.val)
          /\ PathReturn(StatusValue(status.val), "Verified", "none")
       \/ /\ status.val.kind # "error"
          /\ ~StatusSuccess(status.val)
          /\ \E filesOk \in BOOLEAN :
                IF filesOk
                THEN PathReturn(StatusValue(status.val), "VerifiedButMissing",
                                "not_in_path")
                ELSE PathReturn("Err", "VerifiedButMissing", "none")
    /\ UNCHANGED <<env_SHELL, env_HOME, env_PATH, data_home,
                   xdg_data_yabridge_exists, shell, command, status, shellRead,
                   spawnCount, wineVars>>

PathNext ==
    \/ PathCall
    \/ CheckDataHome
    \/ ReadShell
    \/ MatchShell
    \/ SpawnShell
    \/ MatchStatus

\* Any sequence of calls of verify_path_setup.
PathSpec == Init /\ [][PathNext]_vars

-----------------------------------------------------------------------------
(* Properties of verify_path_setup *)

Pair(v, o) == [value |-> v, outcome |-> o]

\* C5 as stated: two calls that end in different outcomes of Verified,
\* VerifiedButMissing and SkippedInconclusive return different values.
C5_ThreeWayOutcome ==
    \A a, b \in seen : a.outcome # b.outcome => a.value # b.value

\* C5: the returned value tells VerifiedButMissing from the other two
\* outcomes and nothing more: Verified and SkippedInconclusive both return
\* Ok(true), and a call that ends in VerifiedButMissing never does.
C5_TwoWayValue ==
    /\ \A a \in seen :
          a.outcome \in {"Verified", "SkippedInconclusive"} <=> a.value = "Ok(true)"
    /\ \A a, b \in seen :
          (a.outcome = "VerifiedButMissing") # (b.outcome = "VerifiedButMissing")
             => a.value # b.value

\* Calls have ended in each of the three outcomes.
C5_Witness ==
    {Pair("Ok(true)", "Verified"), Pair("Ok(true)", "SkippedInconclusive"),
     Pair("Ok(false)", "VerifiedButMissing")} \subseteq seen

\* C8: with yabridge-host.exe executable in the data directory the call
\* returns Ok(true) as Verified at once: SHELL is not read and no Command is
\* built or spawned, whatever SHELL is.
C8_DataHomeShortCircuit ==
    (ppc \notin {"idle", "check_data_home"} /\ data_home = "executable") =>
        /\ ppc = "done"
        /\ path_result = "Ok(true)"
        /\ outcome = "Verified"
        /\ ~shellRead
        /\ command = None
        /\ spawnCount = 0

\* The short circuit with SHELL naming a shell the match knows.
C8_Witness ==
    /\ ppc = "done"
    /\ data_home = "executable"
    /\ env_SHELL = Some(<<"/", "bin", "/", "bash">>)
    /\ path_result = "Ok(true)"

\* The last token of SHELL that is a name: its basename, if it has one.
HasKnownBasename(shell_path) ==
    \E n \in ShellNames : FileName(shell_path) = Some(n)

\* C9: with yabridge-host.exe not in the data directory, and SHELL unset or
\* its basename none of the names of the match, the call ends as
\* SkippedInconclusive with Ok(true), and no login shell is spawned.
C9_UnverifiableIsSkipped ==
    ( /\ ppc = "done"
      /\ data_home # "executable"
      /\ (~IsSome(env_SHELL) \/ ~HasKnownBasename(env_SHELL.val)) ) =>
        /\ path_result = "Ok(true)"
        /\ outcome = "SkippedInconclusive"
        /\ path_warning \in {"no_shell", "unknown_shell"}
        /\ spawnCount = 0
        /\ status = None

\* A shell the match does not name.
C9_Witness ==
    /\ ppc = "done"
    /\ data_home = "absent"
    /\ env_SHELL = Some(<<"/", "usr", "/", "bin", "/", "xonsh">>)
    /\ path_warning = "unknown_shell"

\* C10 as stated: once the login shell was spawned, exit status zero gives
\* Verified and every other exit status gives VerifiedButMissing.
C10_ExitStatusDecides ==
    (ppc = "done" /\ IsSome(status) /\ status.val.kind = "exit") =>
        IF status.val.code = 0
        THEN path_result = "Ok(true)" /\ outcome = "Verified"
        ELSE path_result = "Ok(false)" /\ outcome = "VerifiedButMissing"

\* C11: if the login shell cannot be spawned the call ends as
\* SkippedInconclusive: it prints the spawn warning and returns Ok(true),
\* neither Ok(false) nor Err.
C11_SpawnFailureIsSkipped ==
    (ppc = "done" /\ IsSome(status) /\ status.val.kind = "error") =>
        /\ path_result = "Ok(true)"
        /\ outcome = "SkippedInconclusive"
        /\ path_warning = "spawn_failed"

\* The spawn of a shell the match knows failed.
C11_Witness ==
    /\ ppc = "done"
    /\ spawnCount = 1
    /\ IsSome(command)
    /\ status = Some([kind |-> "error", code |-> -1])

-----------------------------------------------------------------------------
(* Further properties of verify_wine_setup *)

\* C12 as stated: the version of the candidate is the probe's standard
\* output without one trailing line terminator, and nothing else is removed
\* from any output: an output that ends in no line feed is kept whole, and
\* no output makes the call panic.
C12_TrimsOneLineTerminator ==
    /\ result # "Panic"
    /\ IsSome(wine_version) =>
          LET out == wine_version_output.val
              v   == wine_version.val
          IN  \/ out = v \o <<"LF">>
              \/ out = v \o <<"CR", "LF">>
              \/ /\ out = v
                 /\ (Len(out) = 0 \/ out[Len(out)] # "LF")

-----------------------------------------------------------------------------
(* Further properties of verify_path_setup *)

\* C14 as stated: every advisory condition of verify_path_setup (SHELL unset,
\* a shell the match does not know, a failed spawn, a shell that exits
\* non-zero) ends in a warning and an Ok value, never in Err; a non-zero exit
\* gives Ok(false), whatever config.files() returns.
C14_AdvisoryNeverErr ==
    ppc = "done" =>
        /\ path_result \in {"Ok(true)", "Ok(false)"}
        /\ outcome # "Verified" => path_warning # "none"
        /\ (IsSome(status) /\ status.val.kind # "error" /\ ~StatusSuccess(status.val))
              => path_result = "Ok(false)"

\* The arguments the table of the claim gives the shell named n, <<>> for a
\* name that is not in the table.
TableArgs(n) ==
    IF n \in {"ash", "bash", "csh", "ksh", "dash", "fish", "ion", "sh", "tcsh", "zsh"}
    THEN <<"-l", "-c", <<"command -v", "yabridge-host.exe">>>>
    ELSE IF n \in {"elvish", "oil"}
    THEN <<"-c", <<"command -v", "yabridge-host.exe">>>>
    ELSE IF n = "pwsh"
    THEN <<"-l", "-c", <<"which", "yabridge-host.exe">>>>
    ELSE IF n = "nu"
    THEN <<"-c", <<"which", "yabridge-host.exe">>>>
    ELSE <<>>

\* The arguments the table gives the value shell_path of SHELL.
ExpectedArgs(shell_path) ==
    IF IsSome(FileName(shell_path)) THEN TableArgs(FileName(shell_path).val)
    ELSE <<>>

\* The match of lines 157-192 has been made for a SHELL that is set.
ShellMatched ==
    /\ IsSome(env_SHELL)
    /\ \/ ppc \in {"spawn", "match_status"}
       \/ ppc = "done" /\ shellRead

\* C17: the classification of SHELL's basename follows the table: the ten
\* POSIX shells get -l -c "command -v", elvish and oil -c "command -v", pwsh
\* -l -c "which", nu -c "which"; every other value of SHELL, an empty one and
\* one with no basename too, is unknown and ends the call with a warning
\* and Ok(true), not with a crash.
C17_ClassificationFollowsTable ==
    ShellMatched =>
        IF ExpectedArgs(env_SHELL.val) = <<>>
        THEN /\ command = None
             /\ ppc = "done"
             /\ path_warning = "unknown_shell"
             /\ path_result = "Ok(true)"
        ELSE /\ IsSome(command)
             /\ command.val.args = ExpectedArgs(env_SHELL.val)

\* nu, named by a path that ends in ".", is queried with `which` and no -l.
C17_Witness ==
    /\ ppc = "done"
    /\ env_SHELL = Some(<<"nu", "/", ".">>)
    /\ IsSome(command)
    /\ command.val.args = <<"-c", <<"which", "yabridge-host.exe">>>>

\* C18: the login shell is spawned with argv[0] = "-" followed by the value of
\* SHELL and with an environment of exactly one variable, HOME (empty when
\* HOME is unset); the whole Command is a function of SHELL and HOME, so
\* yabridgectl's own PATH has no part in what is spawned.
C18_CommandFromShellAndHomeOnly ==
    /\ spawnCount > 0 => IsSome(command)
    /\ IsSome(command) =>
          /\ command.val.program = env_SHELL.val
          /\ command.val.arg0 = <<"-">> \o env_SHELL.val
          /\ DOMAIN command.val.env = {"HOME"}
          /\ command.val.env.HOME = (IF env_HOME = None THEN <<>> ELSE env_HOME.val)
          /\ command.val.args = ExpectedArgs(env_SHELL.val)
          /\ DOMAIN command.val = {"program", "arg0", "args", "env", "stdout", "stderr"}

\* The shell has been spawned by a yabridgectl whose own PATH is not empty.
C18_Witness ==
    /\ ppc = "done"
    /\ spawnCount = 1
    /\ env_PATH = <<"/", "opt", "/", "yabridge">>
    /\ env_SHELL = Some(<<"/", "bin", "/", "zsh">>)
    /\ IsSome(command)
    /\ command.val.arg0 = <<"-", "/", "bin", "/", "zsh">>

-----------------------------------------------------------------------------
(* Further properties of verify_wine_setup *)

\* C19: what the call does after the helper has run is decided by the lines
\* of the helper's standard error alone, for every exit status: with a usage
\* line the candidate is stored and written, without one the call warns and
\* leaves the Config and the file as they were.
C19_ExitStatusPlaysNoPart ==
    Classified =>
        LET usage == UsageLinesOf(lines) IN
        /\ success <=> usage # {}
        /\ pc = "write" => usage # {} /\ last_known_config = current_config
        /\ pc = "done" =>
              IF usage # {}
              THEN /\ writeCalls = 1
                   /\ last_known_config = current_config
                   /\ result = "Ok" => store = current_config
              ELSE /\ result = "Ok"
                   /\ IsSome(warning)
                   /\ last_known_config = entry_config
                   /\ store = entry_store

\* The candidate is stored after a helper that printed its usage line and
\* exited with status 1.
C19_Witness ==
    /\ pc = "done"
    /\ exitCode = 1
    /\ helperRuns = 1
    /\ success
    /\ result = "Ok"
    /\ entry_config # current_config
    /\ store = current_config

\* C16: after a successful verification that was written, last_known_config
\* and the file both hold exactly the candidate, whatever they held before;
\* when the file already held that KnownConfig from an earlier successful
\* verification, writing it again leaves the file as it was.
C16_PersistIdempotent ==
    (pc = "done" /\ success /\ result = "Ok") =>
        /\ last_known_config = current_config
        /\ store = current_config
        /\ entry_store = current_config => store = entry_store
        /\ lastPassed = current_config

\* A KnownConfig is verified and written a second time: the file held it at
\* entry, the Config held another one.
C16_Witness ==
    /\ pc = "done"
    /\ success
    /\ result = "Ok"
    /\ writeCalls = 1
    /\ IsSome(entry_store)
    /\ entry_store = current_config
    /\ entry_config # current_config
    /\ store = entry_store

\* The call returned Err and did nothing: no warning, no write, the Config
\* and the file as they were at entry.
Aborted ==
    /\ pc = "done"
    /\ result = "Err"
    /\ warning = None
    /\ ~success
    /\ writeCalls = 0
    /\ last_known_config = entry_config
    /\ store = entry_store

\* C13: a `wine --version` that cannot be run, output of wine or of the helper
\* that is not UTF-8, a yabridge-host.exe that cannot be found or read for
\* hashing, and a helper that cannot be run each end the call with Err at
\* that step: the helper is not run after a failure before it, nothing is
\* classified or written after any of them, and no warning is printed.
C13_FatalErrorsAbort ==
    /\ (pc \notin {"idle", "probe", "dead"} /\ wine_version_output = None)
          => Aborted /\ probeRuns = 1 /\ helperRuns = 0
    /\ (pc \notin {"idle", "probe", "decode_version", "dead"}
          /\ IsSome(wine_version_output) /\ ~IsUtf8(wine_version_output.val))
          => Aborted /\ wine_version = None /\ helperRuns = 0
    /\ (pc = "done" /\ IsSome(wine_version) /\ current_config = None)
          => Aborted /\ helperRuns = 0
    /\ pc \in {"compare", "run_helper", "decode_stderr", "scan", "classified", "write"}
          => IsSome(current_config)
    /\ (pc = "done" /\ helperRuns = 1 /\ lineIdx = 0) => Aborted
    /\ (pc \in {"scan", "classified", "write"} \/ (pc = "done" /\ ~Aborted))
          => IsUtf8(stderr)
    /\ (pc = "done" /\ result = "Err") => warning = None

\* The version was read, yabridge-host.exe could not be found or hashed: Err,
\* and the helper was not run.
C13_Witness ==
    /\ pc = "done"
    /\ result = "Err"
    /\ probeRuns = 1
    /\ IsSome(wine_version)
    /\ current_config = None
    /\ helperRuns = 0
    /\ IsSome(entry_config)

-----------------------------------------------------------------------------
(* One run of yabridgectl *)

\* What the configuration file can hold when yabridgectl starts.
StoredConfigs == {None, Some(KnownConfig(<<"w", "6">>, 5))}

\* yabridgectl has read its Config from the file and has called nothing yet.
ToolInit ==
    /\ store \in StoredConfigs
    /\ last_known_config = store
    /\ pc = "idle"
    /\ wine_version_output = None
    /\ wine_version = None
    /\ current_config = None
    /\ stderr = <<>>
    /\ lines = <<>>
    /\ lineIdx = 0
    /\ success = FALSE
    /\ last_error = None
    /\ result = "none"
    /\ warning = None
    /\ exitCode = 0
    /\ probeRuns = 0
    /\ helperRuns = 0
    /\ writeCalls = 0
    /\ entry_config = None
    /\ entry_store = None
    /\ ranFor = {}
    /\ lastPassed = None
    /\ failedWrite = None
    /\ PathIdle

\* The run's one call of verify_path_setup.
ToolPathCall == ppc = "idle" /\ pc = "idle" /\ PathCall

\* The run's one call of verify_wine_setup, after verify_path_setup returned.
ToolCall == ppc = "done" /\ pc = "idle" /\ Call

ToolNext ==
    \/ ToolPathCall
    \/ CheckDataHome
    \/ ReadShell
    \/ MatchShell
    \/ SpawnShell
    \/ MatchStatus
    \/ ToolCall
    \/ ProbeVersion
    \/ DecodeVersion
    \/ ResolveFiles
    \/ HashFile
    \/ CompareCache
    \/ RunHelper
    \/ DecodeStderr
    \/ ScanLine
    \/ EndScan
    \/ UpdateConfig
    \/ WriteConfig
    \/ WarnFailure

\* One run of yabridgectl that calls each of the two functions once.
ToolSpec == ToolInit /\ [][ToolNext]_vars

\* C15: in one run of yabridgectl `wine --version`, yabridge-host.exe and the
\* login shell are each spawned at most once; each has been attempted exactly
\* once as soon as its step is passed, and is not attempted again when the
\* attempt fails.
C15_NoExternalCallRetried ==
    /\ probeRuns <= 1 /\ helperRuns <= 1 /\ spawnCount <= 1
    /\ pc = "probe" => probeRuns = 0
    /\ pc \notin {"idle", "probe"} => probeRuns = 1
    /\ pc = "run_helper" => helperRuns = 0
    /\ pc \in {"decode_stderr", "scan", "classified", "write"} => helperRuns = 1
    /\ ppc = "spawn" => spawnCount = 0
    /\ (ppc = "match_status" \/ (ppc = "done" /\ IsSome(status))) => spawnCount = 1
    /\ (ppc = "done" /\ status = None) => spawnCount = 0

\* The login shell could not be spawned, then the helper could not be run:
\* each was attempted once, as `wine --version` was.
C15_Witness ==
    /\ ppc = "done"
    /\ status = Some([kind |-> "error", code |-> -1])
    /\ spawnCount = 1
    /\ pc = "done"
    /\ result = "Err"
    /\ IsSome(current_config)
    /\ lineIdx = 0
    /\ probeRuns = 1
    /\ helperRuns = 1

-----------------------------------------------------------------------------
(* Runs of yabridgectl, one after the other *)

\* The run's one call of verify_wine_setup, on the Config the run has read.
RunCall == pc = "idle" /\ Call

RunsNext ==
    \/ RunCall
    \/ Restart
    \/ Kill
    \/ ProbeVersion
    \/ DecodeVersion
    \/ ResolveFiles
    \/ HashFile
    \/ CompareCache
    \/ RunHelper
    \/ DecodeStderr
    \/ ScanLine
    \/ EndScan
    \/ UpdateConfig
    \/ WriteConfig
    \/ WarnFailure

\* Runs of yabridgectl that each read the Config and call verify_wine_setup once.
RunsSpec == Init /\ [][RunsNext]_vars

\* C20: when config.write() fails after a success classification the call
\* returns Err and the file holds what it held at entry, which is not the
\* candidate; the next run of yabridgectl reads that, and when it comes to the
\* same candidate it does not take the cache hit but runs the helper again.
C20_FailedPersistIsRetriedNextRun ==
    /\ (pc = "done" /\ writeCalls = 1 /\ store # last_known_config) =>
          /\ result = "Err"
          /\ success
          /\ store = entry_store
          /\ Differs(store, current_config.val)
    /\ (pc = "idle" /\ IsSome(failedWrite)) =>
          /\ last_known_config = store
          /\ Differs(last_known_config, failedWrite.val)
    /\ (IsSome(failedWrite) /\ current_config = failedWrite
          /\ pc \in {"run_helper", "decode_stderr", "scan", "classified", "write", "done"})
          => /\ Differs(entry_config, current_config.val)
             /\ pc # "run_helper" => helperRuns = 1

\* The run after a failed write has run the helper for the same candidate.
C20_Witness ==
    /\ IsSome(failedWrite)
    /\ current_config = failedWrite
    /\ pc = "decode_stderr"
    /\ helperRuns = 1
    /\ IsSome(entry_config)
    /\ entry_config = store

====
